---- MODULE Spec2Model ----
(***************************************************************************)
(* Model of events_deletion.py: the EventDeletion sweep over the pages of  *)
(* a calendar listing, the classification of events as passed, and the     *)
(* deletion of passed events with the deleted_events set.                  *)
(*                                                                         *)
(* Times are naive datetimes counted in seconds from an arbitrary origin.  *)
(* The strings the code parses are records of their fields:                *)
(*   end/start "dateTime"  YYYY-MM-DDTHH:MM:SS+hh:mm                       *)
(*        [ymdhms |-> wall-clock seconds, tz |-> UTC offset in seconds]    *)
(*   end/start "date"      YYYY-MM-DD          [ymd |-> day number]        *)
(*   a recurrence line     [rrule |-> "RRULE" occurs in the line,          *)
(*                          until |-> the UNTIL= parameter]                *)
(*   UNTIL=YYYYMMDDTHHMMSSZ   [form |-> "utc", ymdhm |-> minute number,    *)
(*                             ss |-> seconds]                             *)
(*   UNTIL=YYYYMMDD           [form |-> "date", ymd |-> day number]        *)
(*   no UNTIL                 [form |-> "none"]                            *)
(* A dict is a record; "key in dict" is key \in DOMAIN dict.               *)
(***************************************************************************)
EXTENDS Integers, Sequences, FiniteSets, TLC

VARIABLES
    time_max,        \* self.time_max (naive UTC)
    confirm_delete,  \* self.confirm_delete
    deleted_events,  \* self.deleted_events
    pages,           \* the calendar service's listing: the chain of pages
    page_token,      \* delete_events: page_token
    events,          \* delete_events: events (the page being processed)
    idx,             \* position of the for loop in events["items"]
    rec_event,       \* delete_events: rec_event
    pc,              \* position in delete_events
    raised,          \* the exception that escaped delete_events, if any
    out,             \* standard output: the status lines printed
    requests,        \* the requests sent to the calendar service, in order
    calls,           \* the events _delete_event was called with, in order
    first,           \* the finished first run, when a second run follows it
    probe            \* one classification: an event, time_max and the result

vars == <<time_max, confirm_delete, deleted_events, pages, page_token, events,
          idx, rec_event, pc, raised, out, requests, calls, first, probe>>

sweep_vars == <<time_max, confirm_delete, deleted_events, pages, page_token,
                events, idx, rec_event, pc, raised, out, requests, calls, first>>

None == "None"

\* The longest chain of pages the listing is drawn from.
MaxPages == 2

\* The most recurrence lines of a classified series.
MaxRules == 2

----------------------------------------------------------------------------
(* Parsing and classification                                              *)

\* datetime.strptime(s[:13], "%Y%m%dT%H%M") of an UNTIL value: the first 13
\* characters are the date, hour and minute; the seconds and the Z are cut.
ParseUntil(u) == u.ymdhm * 60

\* re.search(r"UNTIL=(\d{8}T\d{6}Z)", rec): only the UTC date-time form matches.
SearchUntil(rec) == rec.until.form = "utc"

\* datetime.strptime(s[:19], "%Y-%m-%dT%H:%M:%S"): the first 19 characters are
\* the wall-clock date and time; the UTC offset behind them is cut.
ParseDateTime(s) == s.ymdhms

\* datetime.strptime(s, "%Y-%m-%d"): midnight of that day.
ParseDate(s) == s.ymd * 86400

_get_datetime(event, key) ==
    IF "dateTime" \in DOMAIN event[key]
    THEN ParseDateTime(event[key].dateTime)
    ELSE ParseDate(event[key].date)

\* The loop, were it to return at the first RRULE line that carries an UNTIL.
RECURSIVE RecurrenceLoopFirstUntil(_, _, _)
RecurrenceLoopFirstUntil(recurrence, i, tmax) ==
    IF i > Len(recurrence) THEN FALSE
    ELSE IF recurrence[i].rrule /\ SearchUntil(recurrence[i])
         THEN ParseUntil(recurrence[i].until) < tmax
         ELSE RecurrenceLoopFirstUntil(recurrence, i + 1, tmax)

\* The for loop over event["recurrence"] from line i on: the first RRULE line
\* whose UNTIL is before tmax returns True; running off the end returns False.
RECURSIVE RecurrenceLoop(_, _, _)
RecurrenceLoop(recurrence, i, tmax) ==
    IF i > Len(recurrence) THEN FALSE
    ELSE IF /\ recurrence[i].rrule
            /\ SearchUntil(recurrence[i])
            /\ ParseUntil(recurrence[i].until) < tmax
         THEN TRUE
         ELSE RecurrenceLoop(recurrence, i + 1, tmax)

_event_is_passed(event, tmax) ==
    IF "recurrence" \in DOMAIN event
    THEN RecurrenceLoop(event.recurrence, 1, tmax)
    ELSE _get_datetime(event, "end") < tmax

_is_recurrent(event) == "recurringEventId" \in DOMAIN event

----------------------------------------------------------------------------
(* The calendar                                                            *)

DT(t, z) == [dateTime |-> [ymdhms |-> t, tz |-> z]]
D(d) == [date |-> [ymd |-> d]]
Utc(m, s) == [form |-> "utc", ymdhm |-> m, ss |-> s]
NoUntil == [form |-> "none"]

\* The series definitions events().get can return.
Series ==
    { [id |-> "r1", summary |-> "weekly", start |-> DT(30, 0), end |-> DT(40, 0),
       recurrence |-> << [rrule |-> TRUE, until |-> Utc(2, 0)] >>],
      [id |-> "r2", summary |-> "daily", start |-> DT(50, 0), end |-> DT(60, 0),
       recurrence |-> << [rrule |-> TRUE, until |-> NoUntil] >>] }

SeriesById(id) == CHOOSE s \in Series : s.id = id

\* The single events a listing can return, in start-time order.
Listed ==
    << [id |-> "e1", summary |-> "all day", start |-> D(0), end |-> D(0)],
       [id |-> "e2", summary |-> "weekly", recurringEventId |-> "r1",
        start |-> DT(90, 0), end |-> DT(120, 0)],
       [id |-> "e3", summary |-> "weekly", recurringEventId |-> "r1",
        start |-> DT(2990, 0), end |-> DT(3000, 0)],
       [id |-> "e4", summary |-> "daily", recurringEventId |-> "r2",
        start |-> DT(100, 0), end |-> DT(130, 0)] >>

TimeMaxChoices == {150, 4000}

\* The continuation tokens the service hands out: page k is fetched with Tokens[k].
Tokens == <<"t1", "t2", "t3", "t4", "t5">>

\* The items of page k when where[i] is the page Listed[i] is on (0: not listed).
RECURSIVE ItemsOf(_, _, _)
ItemsOf(where, k, i) ==
    IF i > Len(Listed) THEN <<>>
    ELSE (IF where[i] = k THEN <<Listed[i]>> ELSE <<>>) \o ItemsOf(where, k, i + 1)

\* The response of events().list for page k of n: the last page carries no
\* nextPageToken, or an empty one.
MakePage(n, where, last, k) ==
    IF k < n
    THEN [items |-> ItemsOf(where, k, 1), nextPageToken |-> Tokens[k + 1]]
    ELSE IF last = "absent"
         THEN [items |-> ItemsOf(where, k, 1)]
         ELSE [items |-> ItemsOf(where, k, 1), nextPageToken |-> ""]

\* orderBy="startTime": a later event is never on an earlier page.
InStartOrder(where) ==
    \A i, j \in 1..Len(Listed) :
        (i < j /\ where[i] > 0 /\ where[j] > 0) => where[i] <= where[j]

Placements == { where \in [1..Len(Listed) -> 0..MaxPages] : InStartOrder(where) }

\* The listings of the calendar: up to MaxPages pages, pages may be empty.
Listings ==
    { [k \in 1..n |-> MakePage(n, where, last, k)] :
        n \in 1..MaxPages, where \in Placements, last \in {"absent", "empty"} }

\* events().list(pageToken=tok).execute(): no token is the first page.
ServicePage(tok) ==
    IF tok = None THEN pages[1]
    ELSE pages[CHOOSE k \in 1..Len(pages) : Tokens[k] = tok]

\* dict.get(key): None when the key is absent.
Get(dict, key) == IF key \in DOMAIN dict THEN dict[key] ELSE None

\* Python truthiness of a token: None and "" are false.
Truthy(tok) == tok \notin {None, ""}

----------------------------------------------------------------------------
(* _delete_event                                                           *)

DELETED == "DELETED"
ALREADY_DELETED == "ALREADY DELETED"
FAILED == "FAILED "

\* What events().delete(...).execute() can do: return, raise HttpError with
\* status 410, raise HttpError with another status, raise another exception.
DeleteAnswers == {"ok", "410", "500", "exception"}

\* What events().list and events().get can do: return or raise.
ReadAnswers == {"ok", "error"}

\* Line 135: the identifier was already deleted in this run.
AlreadyDeletedNever(event_id) == FALSE
AlreadyDeleted(event_id) == event_id \in deleted_events

\* Line 138: the delete request is sent in confirmed mode only.
SendsDeleteAlways == TRUE
SendsDelete == confirm_delete

\* Lines 138-145: the try block runs to its end (result = "DELETED" and the add)
\* when no request is sent or the request returns.
TryCompletesAlways(ans) == TRUE
TryCompletesConfirmedOnly(ans) == SendsDelete /\ ans = "ok"
TryCompletes(ans) == ~SendsDelete \/ ans = "ok"

\* Lines 144-157: the result the status line carries.
ResultOfGone(ans) == IF TryCompletes(ans) THEN DELETED ELSE FAILED
ResultOf(ans) ==
    IF TryCompletes(ans) THEN DELETED
    ELSE IF ans = "410" THEN ALREADY_DELETED
    ELSE FAILED

\* Lines 159-162: the status line.
StatusLine(event, result) ==
    [result |-> result,
     event_date |-> _get_datetime(event, "start"),
     recurrent_tag |-> IF "recurrence" \in DOMAIN event
                       THEN "[Recurent event] - " ELSE "",
     summary |-> Get(event, "summary")]

_delete_event(event, ans) ==
    LET event_id == event.id IN
    /\ calls' = Append(calls, event_id)
    /\ IF AlreadyDeleted(event_id)
       THEN UNCHANGED <<deleted_events, out, requests>>
       ELSE /\ requests' = IF SendsDelete
                           THEN Append(requests, [op |-> "delete", arg |-> event_id,
                                                  answer |-> ans])
                           ELSE requests
            /\ deleted_events' = IF TryCompletes(ans)
                                 THEN deleted_events \cup {event_id}
                                 ELSE deleted_events
            /\ out' = Append(out, StatusLine(event, ResultOf(ans)))

----------------------------------------------------------------------------
(* delete_events                                                           *)

\* EventDeletion(time_min, time_max, confirm_delete) followed by the first
\* line of delete_events.
Construct(tmax, confirm) ==
    /\ time_max' = tmax
    /\ confirm_delete' = confirm
    /\ deleted_events' = {}
    /\ page_token' = None
    /\ events' = None
    /\ idx' = 1
    /\ rec_event' = None
    /\ pc' = "list"
    /\ raised' = "none"
    /\ out' = <<>>
    /\ requests' = <<>>
    /\ calls' = <<>>

InLoop == pc = "for" /\ idx <= Len(events.items)

event == events.items[idx]

\* Lines 61-73: one events().list request.
ListEvents(ans) ==
    /\ pc = "list"
    /\ requests' = Append(requests, [op |-> "list", arg |-> page_token, answer |-> ans])
    /\ IF ans = "ok"
       THEN /\ events' = ServicePage(page_token)
            /\ idx' = 1
            /\ pc' = "for"
            /\ UNCHANGED raised
       ELSE /\ pc' = "raised"
            /\ raised' = "list"
            /\ UNCHANGED <<events, idx>>
    /\ UNCHANGED <<time_max, confirm_delete, deleted_events, pages, page_token,
                   rec_event, out, calls, first, probe>>

\* Lines 76-82: the parent series of a recurring instance is fetched and classified.
GetRecurringEvent(ans) ==
    /\ InLoop
    /\ _is_recurrent(event)
    /\ requests' = Append(requests, [op |-> "get", arg |-> event.recurringEventId,
                                     answer |-> ans])
    /\ IF ans = "ok"
       THEN /\ rec_event' = SeriesById(event.recurringEventId)
            /\ pc' = IF _event_is_passed(rec_event', time_max)
                     THEN "delete_rec" ELSE "self"
            /\ UNCHANGED raised
       ELSE /\ pc' = "raised"
            /\ raised' = "get"
            /\ UNCHANGED rec_event
    /\ UNCHANGED <<time_max, confirm_delete, deleted_events, pages, page_token,
                   events, idx, out, calls, first, probe>>

\* Line 86: self._delete_event(rec_event).
DeleteRecurringEvent(ans) ==
    /\ pc = "delete_rec"
    /\ _delete_event(rec_event, ans)
    /\ pc' = "self"
    /\ UNCHANGED <<time_max, confirm_delete, pages, page_token, events, idx,
                   rec_event, raised, first, probe>>

\* Line 88 is reached: after lines 76-86, or at once for an event that is not
\* an instance of a series.
AtSelf == pc = "self" \/ (InLoop /\ ~_is_recurrent(event))

\* Lines 88-89 for a passed event, and the loop's step to the next event.
DeleteListedEvent(ans) ==
    /\ AtSelf
    /\ _event_is_passed(event, time_max)
    /\ _delete_event(event, ans)
    /\ idx' = idx + 1
    /\ pc' = "for"
    /\ UNCHANGED <<time_max, confirm_delete, pages, page_token, events,
                   rec_event, raised, first, probe>>

\* Line 88 for an event that is not passed, and the loop's step to the next event.
KeepListedEvent ==
    /\ AtSelf
    /\ ~_event_is_passed(event, time_max)
    /\ idx' = idx + 1
    /\ pc' = "for"
    /\ UNCHANGED <<time_max, confirm_delete, deleted_events, pages, page_token,
                   events, rec_event, raised, out, requests, calls, first, probe>>

\* Lines 91-93: the page is exhausted; the loop goes on with its token or breaks.
EndOfPage ==
    /\ pc = "for"
    /\ idx > Len(events.items)
    /\ page_token' = Get(events, "nextPageToken")
    /\ pc' = IF Truthy(page_token') THEN "list" ELSE "done"
    /\ UNCHANGED <<time_max, confirm_delete, deleted_events, pages, events, idx,
                   rec_event, raised, out, requests, calls, first, probe>>

Init ==
    /\ time_max \in TimeMaxChoices
    /\ confirm_delete \in BOOLEAN
    /\ deleted_events = {}
    /\ pages \in Listings
    /\ page_token = None
    /\ events = None
    /\ idx = 1
    /\ rec_event = None
    /\ pc = "list"
    /\ raised = "none"
    /\ out = <<>>
    /\ requests = <<>>
    /\ calls = <<>>
    /\ first = <<>>
    /\ probe = <<>>

Next ==
    \/ \E ans \in ReadAnswers : ListEvents(ans)
    \/ \E ans \in ReadAnswers : GetRecurringEvent(ans)
    \/ \E ans \in DeleteAnswers : DeleteRecurringEvent(ans)
    \/ \E ans \in DeleteAnswers : DeleteListedEvent(ans)
    \/ KeepListedEvent
    \/ EndOfPage

Spec == Init /\ [][Next]_vars

----------------------------------------------------------------------------
(* Properties of the sweep                                                 *)

Last(s) == s[Len(s)]

DeleteRequests == { i \in DOMAIN requests : requests[i].op = "delete" }

\* A step in which _delete_event was called, and the identifier it was called with.
Called == Len(calls') = Len(calls) + 1
CalledId == calls'[Len(calls')]

C2_SimulationSendsNoDelete ==
    ~confirm_delete => \A i \in DOMAIN requests : requests[i].op \in {"list", "get"}

\* A finished simulation run that classified events as passed and recorded them.
C2_Witness ==
    /\ ~confirm_delete
    /\ pc = "done"
    /\ Cardinality(deleted_events) >= 2
    /\ Len(out) >= 2

Range(s) == { s[i] : i \in DOMAIN s }

IsList(r) == r.op = "list"

\* The list requests sent so far, in order.
ListRequests == SelectSeq(requests, IsList)

\* The events the listing pages received so far have returned.
ReturnedEvents ==
    UNION { Range(ServicePage(r.arg).items) : r \in { q \in Range(ListRequests) : q.answer = "ok" } }

\* delete_events is over: it returned, or an exception raised while one listed
\* event was handled left it.
SweepOver == pc = "done" \/ raised = "get"

\* Every returned event was handled as lines 76-89 say: the parent of an
\* instance was fetched, _delete_event was called with the parent exactly when
\* the parent is passed, and with the event itself exactly when it is passed.
EveryReturnedEventHandled ==
    \A e \in ReturnedEvents :
        /\ e.id \in Range(calls) <=> _event_is_passed(e, time_max)
        /\ _is_recurrent(e) =>
             /\ \E r \in Range(requests) :
                    r.op = "get" /\ r.arg = e.recurringEventId /\ r.answer = "ok"
             /\ e.recurringEventId \in Range(calls)
                    <=> _event_is_passed(SeriesById(e.recurringEventId), time_max)

\* C3 as stated: once the sweep is over, every event a listing page returned
\* has been handled: parent fetched and deleted iff passed, event deleted iff passed.
C3_EveryReturnedEventHandled == SweepOver => EveryReturnedEventHandled

\* What holds of the code: the same, for a sweep that returned.
ReturnedSweepHandledEveryEvent == pc = "done" => EveryReturnedEventHandled

Results == {DELETED, ALREADY_DELETED, FAILED}

C5_ResultFollowsAnswer ==
    [][(Called /\ CalledId \notin deleted_events /\ confirm_delete) =>
        /\ Len(requests') = Len(requests) + 1
        /\ SubSeq(requests', 1, Len(requests)) = requests
        /\ Last(requests').op = "delete"
        /\ Last(requests').arg = CalledId
        /\ Len(out') = Len(out) + 1
        /\ Last(out').result = CASE Last(requests').answer = "ok" -> DELETED
                                 [] Last(requests').answer = "410" -> ALREADY_DELETED
                                 [] OTHER -> FAILED
        /\ raised' = "none"
        /\ pc' # "raised"]_vars

\* The latest request was a delete answered 410 and the latest line says
\* ALREADY DELETED.
C5_Witness ==
    /\ confirm_delete
    /\ Len(requests) >= 1
    /\ Last(requests).op = "delete"
    /\ Last(requests).answer = "410"
    /\ Len(out) >= 1
    /\ Last(out).result = ALREADY_DELETED
    /\ pc # "raised"

\* C6 as stated: no failure that occurs while one listed event is handled ends
\* the run; the lookup of the parent series is one of them.
C6_EventFailuresAreNotFatal == raised # "get"

\* The list requests of a sweep over the whole chain: each page once, in order.
WholeChain == [k \in 1..Len(pages) |-> IF k = 1 THEN None ELSE Tokens[k]]

ListArgs == [k \in 1..Len(ListRequests) |-> ListRequests[k].arg]

\* C7 as stated: once the sweep is over, every page of the chain has been
\* fetched once, in order.
C7_EveryPageFetchedOnce == SweepOver => ListArgs = WholeChain

\* The series without UNTIL is never handed to _delete_event.
OpenEndedSeriesNeverDeleted == "r2" \notin Range(calls)

\* What holds of the code: the same, for a sweep that returned.
ReturnedSweepFetchedEveryPage == pc = "done" => ListArgs = WholeChain

----------------------------------------------------------------------------
(* Two runs of the program over the same calendar: the default simulation   *)
(* run, then a confirmed run whose delete requests all return and whose     *)
(* list and get requests are answered as in the first run.                  *)

IsRead(r) == r.op # "delete"

\* The list and get requests of a request log, in order.
Reads(log) == SelectSeq(log, IsRead)

\* The answer to the next list or get request is the one the first run got.
SameAnswer(ans) ==
    IF Len(first) = 0 THEN TRUE
    ELSE LET n == Len(Reads(requests)) + 1
             before == Reads(first[1].requests)
         IN  n <= Len(before) => ans = before[n].answer

\* The first run is over; the program is started again with --confirm-delete.
SecondRun ==
    /\ Len(first) = 0
    /\ pc \in {"done", "raised"}
    /\ first' = << [pc |-> pc, out |-> out, deleted_events |-> deleted_events,
                    requests |-> requests, calls |-> calls] >>
    /\ Construct(time_max, TRUE)
    /\ UNCHANGED <<pages, probe>>

InitPair == Init /\ ~confirm_delete

NextPair ==
    \/ \E ans \in ReadAnswers : SameAnswer(ans) /\ ListEvents(ans)
    \/ \E ans \in ReadAnswers : SameAnswer(ans) /\ GetRecurringEvent(ans)
    \/ DeleteRecurringEvent("ok")
    \/ DeleteListedEvent("ok")
    \/ KeepListedEvent
    \/ EndOfPage
    \/ SecondRun

SpecPair == InitPair /\ [][NextPair]_vars

\* C8: when the confirmed run is over it has ended as the simulation run did,
\* called _delete_event with the same events, printed the same status lines
\* and holds the same deleted_events, whose size is the number of distinct
\* identifiers classified passed; its list and get requests are those of the
\* simulation run, which sent no delete request, and it sent one delete
\* request per identifier of deleted_events.
C8_SimulationMatchesConfirmed ==
    (Len(first) = 1 /\ pc \in {"done", "raised"}) =>
        /\ pc = first[1].pc
        /\ calls = first[1].calls
        /\ out = first[1].out
        /\ deleted_events = first[1].deleted_events
        /\ Cardinality(deleted_events) = Cardinality(Range(calls))
        /\ Reads(requests) = first[1].requests
        /\ { requests[i].arg : i \in DeleteRequests } = deleted_events
        /\ Cardinality(DeleteRequests) = Cardinality(deleted_events)

\* Both runs returned, with three events deleted by three requests in the
\* confirmed one and one series met twice.
C8_Witness ==
    /\ Len(first) = 1
    /\ pc = "done"
    /\ Cardinality(deleted_events) >= 3
    /\ Cardinality(DeleteRequests) >= 3
    /\ Len(calls) > Cardinality(deleted_events)
    /\ Len(pages) >= 2

----------------------------------------------------------------------------
(* _event_is_passed on its own, over a range of events and of time_max      *)

DateUntil(d) == [form |-> "date", ymd |-> d]

\* The recurrence lines: RRULE lines with an UNTIL in UTC date-time form around
\* 02:00, with a date-only UNTIL or with none, and a line that is no RRULE.
RecurrenceLines ==
    { [rrule |-> TRUE, until |-> u] :
        u \in { Utc(m, ss) : m \in {119, 120, 121}, ss \in {0, 30} }
              \cup { DateUntil(0), DateUntil(1), NoUntil } }
    \cup { [rrule |-> FALSE, until |-> NoUntil] }

Recurrences == UNION { [1..n -> RecurrenceLines] : n \in 0..MaxRules }

EndChoices ==
    { DT(t, z) : t \in {3600, 7200, 7215, 7216, 10800}, z \in {-3600, 0, 3600} }
    \cup { D(0), D(1) }

\* Series definitions and single events.
ClassifiedEvents ==
    { [id |-> "r", start |-> D(0), end |-> e, recurrence |-> r] :
        e \in {D(0), D(1)}, r \in Recurrences }
    \cup { [id |-> "e", start |-> D(0), end |-> e] : e \in EndChoices }

\* time_max: 02:00:15, 02:01:00, midnight of day 1.
ClassifyTimeMax == {7215, 7260, 86400}

InitClassify ==
    /\ time_max \in ClassifyTimeMax
    /\ confirm_delete = FALSE
    /\ deleted_events = {}
    /\ pages = << [items |-> <<>>] >>
    /\ page_token = None
    /\ events = None
    /\ idx = 1
    /\ rec_event = None
    /\ pc = "done"
    /\ raised = "none"
    /\ out = <<>>
    /\ requests = <<>>
    /\ calls = <<>>
    /\ first = <<>>
    /\ probe = <<>>

\* self._event_is_passed(e), once
Classify(e) ==
    /\ Len(probe) = 0
    /\ probe' = << [event |-> e, passed |-> _event_is_passed(e, time_max)] >>
    /\ UNCHANGED sweep_vars

NextClassify == \E e \in ClassifiedEvents : Classify(e)

SpecClassify == InitClassify /\ [][NextClassify]_vars

\* The instant an UNTIL names: the UTC date-time with its seconds, or the
\* start of the day of a date-only UNTIL.
UntilInstant(u) ==
    IF u.form = "utc" THEN u.ymdhm * 60 + u.ss ELSE u.ymd * 86400

\* The instant an end names: the wall-clock time less its UTC offset, or the
\* start of the day of an all-day end.
EndInstant(e) ==
    IF "dateTime" \in DOMAIN e
    THEN e.dateTime.ymdhms - e.dateTime.tz
    ELSE e.date.ymd * 86400

Classified == Len(probe) = 1

\* C9 as stated: a series is passed iff one of its RRULE lines carries an UNTIL
\* whose instant is strictly before time_max.
C9_PassedIffSomeUntilBefore ==
    (Classified /\ "recurrence" \in DOMAIN probe[1].event) =>
        (probe[1].passed <=>
            \E i \in DOMAIN probe[1].event.recurrence :
                LET rec == probe[1].event.recurrence[i] IN
                /\ rec.rrule
                /\ rec.until.form # "none"
                /\ UntilInstant(rec.until) < time_max)

\* C9, amended: a series is passed iff one of its RRULE lines carries an UNTIL
\* in the form YYYYMMDDTHHMMSSZ whose date, hour and minute (the seconds cut
\* off) are strictly before time_max, whatever the other lines and the end of
\* the series; a series whose lines carry no such UNTIL is not passed.
C9_PassedIffSomeUntilMinuteBefore ==
    (Classified /\ "recurrence" \in DOMAIN probe[1].event) =>
        (probe[1].passed <=>
            \E i \in DOMAIN probe[1].event.recurrence :
                LET rec == probe[1].event.recurrence[i] IN
                /\ rec.rrule
                /\ rec.until.form = "utc"
                /\ (UntilInstant(rec.until) - rec.until.ss) < time_max)

\* A series of two RRULE lines, the first with an UNTIL that is not before
\* time_max and the second with one that is, was classified passed.
C9_Witness ==
    /\ Classified
    /\ "recurrence" \in DOMAIN probe[1].event
    /\ Len(probe[1].event.recurrence) = 2
    /\ probe[1].event.recurrence[1] = [rrule |-> TRUE, until |-> Utc(121, 0)]
    /\ probe[1].event.recurrence[2] = [rrule |-> TRUE, until |-> Utc(119, 30)]
    /\ time_max = 7260
    /\ probe[1].passed

\* C10 as stated: an event without recurrence is passed iff the instant of its
\* end is strictly before time_max.
C10_PassedIffEndBefore ==
    (Classified /\ "recurrence" \notin DOMAIN probe[1].event) =>
        (probe[1].passed <=> EndInstant(probe[1].event.end) < time_max)

\* What holds of the code: the comparison is with the wall-clock time of the
\* end as written, its UTC offset dropped.
PassedIffEndWallClockBefore ==
    (Classified /\ "recurrence" \notin DOMAIN probe[1].event) =>
        (probe[1].passed <=>
            LET e == probe[1].event.end IN
            EndInstant(e) + (IF "dateTime" \in DOMAIN e THEN e.dateTime.tz ELSE 0)
                < time_max)

====
